---- MODULE Spec2Model ----
(***************************************************************************)
(* A model of the HS-code similarity search engine:                        *)
(*   src/src/core/matcher.py  FaissHSCodeMatcher, get_matcher              *)
(*   src/src/utils/logger.py  get_logger, CustomLogger, JSONFileHandler    *)
(* Threads call get_matcher / FaissHSCodeMatcher(...) and search; every    *)
(* read or write of state shared between threads is a step of its own.     *)
(* float32 values are fixed-point integers in units of 1/Scale.            *)
(*   Spec        initialization: get_matcher and direct construction       *)
(*   SearchSpec  searches, from the states in which initialization ends    *)
(*               (SearchInit is a state Spec reaches)                      *)
(***************************************************************************)
EXTENDS Integers, Sequences, FiniteSets, TLC

\* ---------------------------------------------------------------- bounds
NumThreads == 2
MaxObjects == 3

Threads == 1..NumThreads
ObjIds == 1..MaxObjects

\* Python's None, where a name or a string is expected
None == "None"

\* Python's None, where a FaissHSCodeMatcher object is expected
NoObject == 0

\* fixed-point unit of a float32: the value x stands for x / Scale
Scale == 10

\* ---------------------------------------------------------------- corpus files
\* the csv files a caller can name; "bad" has rows of different dimension, "empty"
\* has the header line and no row, "garbage" has a row whose embedding cell is not
\* a Python literal
CsvPaths == {"a", "b", "bad", "empty", "garbage"}

CsvFile(path) ==
    CASE path = "a" ->
           << [id |-> "A", code |-> "c1", description |-> "d1", embedding |-> <<10, 0, 0>>],
              [id |-> "B", code |-> "c2", description |-> "d2", embedding |-> <<0, 10, 0>>],
              [id |-> "C", code |-> "c3", description |-> "d3", embedding |-> <<0, 0, 10>>] >>
      [] path = "b" ->
           << [id |-> "X", code |-> "c4", description |-> "d4", embedding |-> <<30, 40, 0>>],
              [id |-> "Y", code |-> "c5", description |-> "d5", embedding |-> <<0, 0, 0>>] >>
      [] path = "empty" -> <<>>
      [] path = "garbage" ->
           << [id |-> "G", code |-> "c8", description |-> "d8", cell |-> "[1.0, oops"] >>
      [] OTHER ->
           << [id |-> "P", code |-> "c6", description |-> "d6", embedding |-> <<10, 0, 0>>],
              [id |-> "Q", code |-> "c7", description |-> "d7", embedding |-> <<10, 0>>] >>

\* ---------------------------------------------------------------- numerics
RECURSIVE SumSq(_)
SumSq(v) == IF v = <<>> THEN 0 ELSE Head(v) * Head(v) + SumSq(Tail(v))

\* floor of the square root
ISqrt(n) == CHOOSE r \in 0..n : r * r <= n /\ (r + 1) * (r + 1) > n

\* faiss.normalize_L2 on one row: rescale to unit L2 norm; a zero row is left as it is
NormalizeL2(v) ==
    IF SumSq(v) = 0 THEN v
    ELSE LET norm == ISqrt(SumSq(v))
         IN  [i \in 1..Len(v) |-> (v[i] * Scale) \div norm]

RECURSIVE Dot(_, _)
Dot(a, b) == IF a = <<>> THEN 0 ELSE Head(a) * Head(b) + Dot(Tail(a), Tail(b))

\* the inner product of two fixed-point vectors, as a fixed-point value
InnerProduct(a, b) == Dot(a, b) \div Scale

\* ---------------------------------------------------------------- engine objects
\* a FaissHSCodeMatcher object whose __init__ has set no attribute
\* (attrs: the attributes that exist on the object)
BlankObject(kind) ==
    [maker |-> kind, attrs |-> {}, df |-> <<>>, vectors |-> <<>>,
     dimension |-> 0, index |-> <<>>]

EngineAttrs == {"logger", "co", "embedding_model", "df", "vectors", "dimension", "index"}

Unallocated == BlankObject("none")

\* every attribute that __init__ sets is set
FullyInitialized(e) == e.attrs = EngineAttrs

\* _load_data with line 103 building an array of whatever rows there are, as
\* np.array does for rows of unequal length where it makes an array of objects
LoadDataKeepsRaggedRows(e, path) ==
    LET rows == CsvFile(path)
        embs == [i \in 1..Len(rows) |-> rows[i].embedding]
        recs == [i \in 1..Len(rows) |->
                   [id |-> rows[i].id, code |-> rows[i].code,
                    description |-> rows[i].description]]
    IN  IF Len(rows) = 0
        THEN [ok |-> FALSE,
              obj |-> [e EXCEPT !.attrs = @ \cup {"df", "vectors"}]]
        ELSE IF \E i \in 1..Len(rows) : "embedding" \notin DOMAIN rows[i]
        THEN [ok |-> FALSE, obj |-> [e EXCEPT !.df = recs, !.attrs = @ \cup {"df"}]]
        ELSE [ok |-> TRUE,
              obj |-> [e EXCEPT !.df = recs, !.vectors = embs,
                                !.dimension = Len(embs[1]),
                                !.attrs = @ \cup {"df", "vectors", "dimension"}]]

\* _load_data: pd.read_csv (line 98), ast.literal_eval of every embedding cell (102),
\* np.array(...).astype (103), shape[1] (104). With no row, line 103 makes an array
\* of shape (0,) and shape[1] raises; a cell that is no literal raises at line 102;
\* rows of unequal length raise at line 103. The attributes set before the failing
\* statement stay set.
LoadData(e, path) ==
    LET rows == CsvFile(path)
        embs == [i \in 1..Len(rows) |-> rows[i].embedding]
        recs == [i \in 1..Len(rows) |->
                   [id |-> rows[i].id, code |-> rows[i].code,
                    description |-> rows[i].description]]
    IN  IF Len(rows) = 0
        THEN [ok |-> FALSE,
              obj |-> [e EXCEPT !.attrs = @ \cup {"df", "vectors"}]]
        ELSE IF \E i \in 1..Len(rows) : "embedding" \notin DOMAIN rows[i]
        THEN [ok |-> FALSE, obj |-> [e EXCEPT !.df = recs, !.attrs = @ \cup {"df"}]]
        ELSE IF \E i \in 1..Len(rows) : Len(embs[i]) # Len(embs[1])
        THEN [ok |-> FALSE, obj |-> [e EXCEPT !.df = recs, !.attrs = @ \cup {"df"}]]
        ELSE [ok |-> TRUE,
              obj |-> [e EXCEPT !.df = recs, !.vectors = embs,
                                !.dimension = Len(embs[1]),
                                !.attrs = @ \cup {"df", "vectors", "dimension"}]]

\* _initialize_faiss_index: IndexFlatIP(dimension), normalize_L2(self.vectors) in
\* place, index.add(self.vectors) (the index keeps its own copy of the rows)
InitializeFaissIndex(e) ==
    LET normed == [i \in 1..Len(e.vectors) |-> NormalizeL2(e.vectors[i])]
    IN  [e EXCEPT !.vectors = normed, !.index = normed, !.attrs = @ \cup {"index"}]

\* ---------------------------------------------------------------- the index
\* the entry index.search returns in place of a missing neighbour
Padding == [idx |-> -1, distance |-> -(Scale * Scale * Scale)]

\* IndexFlatIP.search(query_vector, k) on the rows `index`: every answer of the
\* library. The k rows of largest inner product, largest first, as 0-based row numbers
\* with their inner products; the library fixes no order among rows of equal inner
\* product; an answer of fewer than k rows is filled up with Padding.
IndexSearch(index, qn, kk) ==
    LET n == Len(index)
        m == IF kk < n THEN kk ELSE n
        sim == [r \in 1..n |-> InnerProduct(index[r], qn)]
        picks == {h \in [1..m -> 1..n] :
                    /\ \A a, b \in 1..m : a < b => h[a] # h[b] /\ sim[h[a]] >= sim[h[b]]
                    /\ \A r \in 1..n :
                         (\A a \in 1..m : h[a] # r) => \A a \in 1..m : sim[r] <= sim[h[a]]}
    IN  {[j \in 1..kk |-> IF j <= m THEN [idx |-> h[j] - 1, distance |-> sim[h[j]]]
                          ELSE Padding] : h \in picks}

\* whether index.search raises: k < 1, or a query of another dimension than the index
IndexSearchRaises(e, qn, kk) == kk < 1 \/ Len(qn) # e.dimension

\* search lines 167-177, without the logging: the results list after the first j
\* entries of hits
RECURSIVE ResultsUpTo(_, _, _)
ResultsUpTo(e, h, j) ==
    IF j = 0 THEN <<>>
    ELSE IF h[j].idx = -1 THEN ResultsUpTo(e, h, j - 1)
    ELSE Append(ResultsUpTo(e, h, j - 1),
                [id |-> e.df[h[j].idx + 1].id,
                 code |-> e.df[h[j].idx + 1].code,
                 description |-> e.df[h[j].idx + 1].description,
                 similarity |-> h[j].distance])

\* the next position at or after j whose entry is not Padding (Len(h) + 1: none)
RECURSIVE NextHit(_, _)
NextHit(h, j) ==
    IF j > Len(h) THEN j
    ELSE IF h[j].idx # -1 THEN j
    ELSE NextHit(h, j + 1)

\* ---------------------------------------------------------------- results.json
\* what JSONFileHandler.__init__ writes into a new file: '[]'
EmptyArray == << [tag |-> "["], [tag |-> "]"] >>

\* log_search_result's log_entry (the timestamp is left out: no claim reads its value)
LogEntry(q, res) == [query |-> q, results |-> res, result_count |-> Len(res)]

\* json.dump([log_entry]): the text of the file, as a sequence of tokens
JsonDump(entry) ==
    << [tag |-> "["], [tag |-> "query", q |-> entry.query] >>
    \o entry.results
    \o << [tag |-> "count", n |-> entry.result_count], [tag |-> "]"] >>

IsTag(tok, name) == "tag" \in DOMAIN tok /\ tok.tag = name

\* whether the text is one whole record, as json.load would accept it
WholeRecord(text) ==
    /\ Len(text) >= 4
    /\ IsTag(text[1], "[")
    /\ IsTag(text[2], "query")
    /\ IsTag(text[Len(text) - 1], "count")
    /\ IsTag(text[Len(text)], "]")
    /\ \A j \in 3..(Len(text) - 2) : "id" \in DOMAIN text[j]

\* json.load of a whole record
JsonLoad(text) ==
    [query |-> text[2].q,
     results |-> SubSeq(text, 3, Len(text) - 2),
     result_count |-> text[Len(text) - 1].n]

\* a write of `data` at offset 0 into a file holding `old`
Overlay(old, data) == data \o SubSeq(old, Len(data) + 1, Len(old))

\* the query representation search passes to log_search_result
QueryRepr(q) == IF q.text THEN q.str ELSE "vector_query"

VARIABLES
    instance,   \* FaissHSCodeMatcher._instance: an object id or NoObject
    obj,        \* the attributes of every FaissHSCodeMatcher object
    nobj,       \* how many objects were constructed
    pc,         \* where each thread is
    op,         \* the call a thread is in: "get", "get_late" (a get_matcher call made
                \* after some get_matcher call has returned), "ctor", "search" or None
    csv,        \* the csv_path argument of the thread's call
    self,       \* the object whose __init__ the thread runs, or it searches
    handle,     \* what the thread's last get_matcher / constructor call returned
    via,        \* which call returned handle: "get", "ctor" or None
    query,      \* search: the query argument
    array,      \* search: the values of the array query_vector refers to
    k,          \* search: the k argument
    hits,       \* search: indices[0] and distances[0] as index.search returned them
    i,          \* search: the position of the for loop in hits
    results,    \* search: the results list
    nlog,       \* search: calls of log_search_result made by this call so far
    how,        \* search: how the call ended
    ret,        \* search: the list the call returned
    logger,     \* logger.py: whether the module's _logger is set
    sinkOk,     \* whether the log directory and results.json can be written
    file,       \* results.json: whether it exists, and its content
    provFailed, \* history: the objects on which a search met a provider failure
    answered    \* history: the answers index.search has given where rows tie, by
                \* rows, query and k

lifeVars == <<instance, obj, nobj, csv, handle, via>>
searchVars == <<query, array, k, hits, i, results, nlog, how, ret, logger, sinkOk,
                file, provFailed, answered>>
vars == <<instance, obj, nobj, pc, op, csv, self, handle, via,
          query, array, k, hits, i, results, nlog, how, ret, logger, sinkOk,
          file, provFailed, answered>>

NoQuery == [text |-> FALSE, str |-> None, vec |-> <<>>]

\* no search has run; logger.py line 224: _logger = None; results.json does not exist
SearchVarsInit ==
    /\ query = [t \in Threads |-> NoQuery]
    /\ array = [t \in Threads |-> <<>>]
    /\ k = [t \in Threads |-> 0]
    /\ hits = [t \in Threads |-> <<>>]
    /\ i = [t \in Threads |-> 0]
    /\ results = [t \in Threads |-> <<>>]
    /\ nlog = [t \in Threads |-> 0]
    /\ how = [t \in Threads |-> None]
    /\ ret = [t \in Threads |-> <<>>]
    /\ logger = FALSE
    /\ sinkOk = TRUE
    /\ file = [exists |-> FALSE, content |-> <<>>]
    /\ provFailed = {}
    /\ answered = {}

Init ==
    /\ instance = NoObject
    /\ obj = [o \in ObjIds |-> Unallocated]
    /\ nobj = 0
    /\ pc = [t \in Threads |-> "idle"]
    /\ op = [t \in Threads |-> None]
    /\ csv = [t \in Threads |-> None]
    /\ self = [t \in Threads |-> NoObject]
    /\ handle = [t \in Threads |-> NoObject]
    /\ via = [t \in Threads |-> None]
    /\ SearchVarsInit

\* ---------------------------------------------------------------- get_matcher
\* a thread calls get_matcher(path), which calls get_instance(path)
GetMatcher(t, path) ==
    /\ pc[t] = "idle"
    /\ nobj + Cardinality({u \in Threads : pc[u] = "gi_check"}) < MaxObjects
    /\ pc' = [pc EXCEPT ![t] = "gi_check"]
    /\ op' = [op EXCEPT ![t] = IF \E u \in Threads : via[u] = "get"
                                THEN "get_late" ELSE "get"]
    /\ csv' = [csv EXCEPT ![t] = path]
    /\ UNCHANGED <<instance, obj, nobj, self, handle, via>>
    /\ UNCHANGED searchVars

\* get_instance line 40: if cls._instance is None, cls(csv_path) creates an object
\* and enters __init__
GetInstanceCheck(t) ==
    /\ pc[t] = "gi_check"
    /\ IF instance = NoObject
       THEN /\ nobj' = nobj + 1
            /\ obj' = [obj EXCEPT ![nobj + 1] = BlankObject("get")]
            /\ self' = [self EXCEPT ![t] = nobj + 1]
            /\ pc' = [pc EXCEPT ![t] = "init_check"]
       ELSE /\ pc' = [pc EXCEPT ![t] = "gi_return"]
            /\ UNCHANGED <<nobj, obj, self>>
    /\ UNCHANGED <<instance, op, csv, handle, via>>
    /\ UNCHANGED searchVars

\* a thread constructs FaissHSCodeMatcher(path) directly
Construct(t, path) ==
    /\ pc[t] = "idle"
    /\ nobj + Cardinality({u \in Threads : pc[u] = "gi_check"}) < MaxObjects
    /\ nobj' = nobj + 1
    /\ obj' = [obj EXCEPT ![nobj + 1] = BlankObject("ctor")]
    /\ self' = [self EXCEPT ![t] = nobj + 1]
    /\ pc' = [pc EXCEPT ![t] = "init_check"]
    /\ op' = [op EXCEPT ![t] = "ctor"]
    /\ csv' = [csv EXCEPT ![t] = path]
    /\ UNCHANGED <<instance, handle, via>>
    /\ UNCHANGED searchVars

\* the constructor call is over: get_instance goes on to line 41, a direct caller
\* holds the object
AfterInit(t) ==
    IF op[t] \in {"get", "get_late"}
    THEN /\ pc' = [pc EXCEPT ![t] = "gi_assign"]
         /\ UNCHANGED <<op, csv, self, handle, via>>
    ELSE /\ pc' = [pc EXCEPT ![t] = "idle"]
         /\ op' = [op EXCEPT ![t] = None]
         /\ csv' = [csv EXCEPT ![t] = None]
         /\ handle' = [handle EXCEPT ![t] = self[t]]
         /\ via' = [via EXCEPT ![t] = "ctor"]
         /\ self' = [self EXCEPT ![t] = NoObject]

\* __init__ lines 54-55: return at once when an instance already exists
InitCheck(t) ==
    /\ pc[t] = "init_check"
    /\ IF instance # NoObject
       THEN AfterInit(t)
       ELSE /\ pc' = [pc EXCEPT ![t] = "init_body"]
            /\ UNCHANGED <<op, csv, self, handle, via>>
    /\ UNCHANGED <<instance, obj, nobj>>
    /\ UNCHANGED searchVars

\* the exception of a failed __init__ leaves get_instance / the constructor call
Raise(t) ==
    /\ pc' = [pc EXCEPT ![t] = "idle"]
    /\ op' = [op EXCEPT ![t] = None]
    /\ csv' = [csv EXCEPT ![t] = None]
    /\ self' = [self EXCEPT ![t] = NoObject]
    /\ UNCHANGED <<handle, via>>

\* __init__ lines 58-71: _setup_logging, the Bedrock client (clientOk: whether
\* cohere_aws.Client succeeds), _load_data, _initialize_faiss_index
InitBody(t, clientOk) ==
    /\ pc[t] = "init_body"
    /\ LET e0 == [obj[self[t]] EXCEPT !.attrs = @ \cup {"logger"}]
           e1 == [e0 EXCEPT !.attrs = @ \cup {"co", "embedding_model"}]
           ld == LoadData(e1, csv[t])
       IN  IF ~clientOk
           THEN /\ obj' = [obj EXCEPT ![self[t]] = e0]
                /\ Raise(t)
           ELSE IF ~ld.ok
           THEN /\ obj' = [obj EXCEPT ![self[t]] = ld.obj]
                /\ Raise(t)
           ELSE /\ obj' = [obj EXCEPT ![self[t]] = InitializeFaissIndex(ld.obj)]
                /\ pc' = [pc EXCEPT ![t] = "init_publish"]
                /\ UNCHANGED <<op, csv, self, handle, via>>
    /\ UNCHANGED <<instance, nobj>>
    /\ UNCHANGED searchVars

\* __init__ line 74: FaissHSCodeMatcher._instance = self
InitPublish(t) ==
    /\ pc[t] = "init_publish"
    /\ instance' = self[t]
    /\ AfterInit(t)
    /\ UNCHANGED <<obj, nobj>>
    /\ UNCHANGED searchVars

\* get_instance line 41: cls._instance = <the object cls(csv_path) returned>
GetInstanceAssign(t) ==
    /\ pc[t] = "gi_assign"
    /\ instance' = self[t]
    /\ pc' = [pc EXCEPT ![t] = "gi_return"]
    /\ UNCHANGED <<obj, nobj, op, csv, self, handle, via>>
    /\ UNCHANGED searchVars

\* get_instance line 42: return cls._instance
GetInstanceReturn(t) ==
    /\ pc[t] = "gi_return"
    /\ handle' = [handle EXCEPT ![t] = instance]
    /\ via' = [via EXCEPT ![t] = "get"]
    /\ pc' = [pc EXCEPT ![t] = "idle"]
    /\ op' = [op EXCEPT ![t] = None]
    /\ csv' = [csv EXCEPT ![t] = None]
    /\ self' = [self EXCEPT ![t] = NoObject]
    /\ UNCHANGED <<instance, obj, nobj>>
    /\ UNCHANGED searchVars

\* ---------------------------------------------------------------- search
\* the queries and k values callers pass
VectorQuery(v) == [text |-> FALSE, str |-> None, vec |-> v]
TextQuery(str) == [text |-> TRUE, str |-> str, vec |-> <<>>]

SearchInputs ==
    {[q |-> VectorQuery(<<0, 20, 0>>), k |-> kk] : kk \in {-1, 0, 1, 4}}
    \cup {[q |-> VectorQuery(<<0, 0, 0>>), k |-> 1],
          [q |-> VectorQuery(<<10, 0>>), k |-> 1],
          [q |-> TextQuery("t"), k |-> 4]}

\* the embeddings the provider answers with
ProviderVectors == {<<0, 20, 0>>}

\* the objects a caller can hold: complete ones, and ones whose __init__ returned at
\* line 55
Obtainable(o) == o \in 1..nobj /\ obj[o].attrs \in {{}, EngineAttrs}

\* line 154 without its early return: the search goes on with no embedding and
\* returns an entry of similarity 0
NoEmbeddingResultFallsThrough ==
    << [id |-> "A", code |-> "c1", description |-> "d1", similarity |-> 0] >>

\* search line 154: the list returned when generate_embedding returned None
NoEmbeddingResult == <<>>

\* search lines 193-194: the list returned from the except clause
ExceptResult == <<>>

\* one result of search, lines 170-176
HitResult(e, hit) ==
    [id |-> e.df[hit.idx + 1].id,
     code |-> e.df[hit.idx + 1].code,
     description |-> e.df[hit.idx + 1].description,
     similarity |-> hit.distance]

\* search returns rt (how: by which path)
Return(t, hw, rt) ==
    /\ pc' = [pc EXCEPT ![t] = "done"]
    /\ how' = [how EXCEPT ![t] = hw]
    /\ ret' = [ret EXCEPT ![t] = rt]

\* index.search picking among tied rows anew at every call
IndexAnswersAnew(index, qn, kk) == IndexSearch(index, qn, kk)

\* index.search computes its answer from the rows, the query and k alone: asked the
\* same again it answers the same again
IndexAnswers(index, qn, kk) ==
    LET before == {a \in answered : a.index = index /\ a.q = qn /\ a.k = kk}
    IN  IF before # {} THEN {a.h : a \in before} ELSE IndexSearch(index, qn, kk)

\* search lines 160-164 on the array `vec`: reshape (a view of the same array),
\* normalize_L2 in place, index.search; an exception goes to line 192
QueryIndex(t, e, vec, kk) ==
    LET qn == NormalizeL2(vec)
    IN  /\ array' = [array EXCEPT ![t] = qn]
        /\ IF IndexSearchRaises(e, qn, kk)
           THEN /\ UNCHANGED <<hits, i, answered>>
                /\ Return(t, "exception", ExceptResult)
           ELSE \E h \in IndexAnswers(e.index, qn, kk) :
                  /\ answered' = IF Cardinality(IndexSearch(e.index, qn, kk)) > 1
                                  THEN answered \cup {[index |-> e.index, q |-> qn,
                                                       k |-> kk, h |-> h]}
                                  ELSE answered
                  /\ hits' = [hits EXCEPT ![t] = h]
                  /\ i' = [i EXCEPT ![t] = NextHit(h, 1)]
                  /\ IF NextHit(h, 1) > Len(h)
                     THEN Return(t, "ok", <<>>)
                     ELSE /\ pc' = [pc EXCEPT ![t] = "loop"]
                          /\ UNCHANGED <<how, ret>>

\* a thread calls o.search(inp.q, inp.k): lines 148-164. On an object without the
\* logger attribute line 151 / 157 raises AttributeError, and so does line 193 in
\* the except clause: that one leaves search. A text query goes on to the provider.
SearchStart(t, o, inp) ==
    /\ pc[t] = "idle"
    /\ Obtainable(o)
    /\ op' = [op EXCEPT ![t] = "search"]
    /\ self' = [self EXCEPT ![t] = o]
    /\ query' = [query EXCEPT ![t] = inp.q]
    /\ k' = [k EXCEPT ![t] = inp.k]
    /\ IF "logger" \notin obj[o].attrs
       THEN /\ pc' = [pc EXCEPT ![t] = "done"]
            /\ how' = [how EXCEPT ![t] = "raised"]
            /\ UNCHANGED <<array, hits, i, ret, answered>>
       ELSE IF inp.q.text
       THEN /\ pc' = [pc EXCEPT ![t] = "embed"]
            /\ UNCHANGED <<array, hits, i, how, ret, answered>>
       ELSE QueryIndex(t, obj[o], inp.q.vec, inp.k)
    /\ UNCHANGED <<results, nlog, logger, sinkOk, file, provFailed>>
    /\ UNCHANGED lifeVars

\* generate_embedding lines 125-132: the provider answers with the embedding v
EmbedReturn(t, v) ==
    /\ pc[t] = "embed"
    /\ QueryIndex(t, obj[self[t]], v, k[t])
    /\ UNCHANGED <<op, self, query, k, results, nlog, logger, sinkOk, file, provFailed>>
    /\ UNCHANGED lifeVars

\* generate_embedding lines 133-135: co.embed raised, None is returned; search
\* lines 153-154
EmbedFail(t) ==
    /\ pc[t] = "embed"
    /\ Return(t, "provider_error", NoEmbeddingResult)
    /\ provFailed' = provFailed \cup {self[t]}
    /\ UNCHANGED <<op, self, query, array, k, hits, i, results, nlog, logger, sinkOk,
                   file, answered>>
    /\ UNCHANGED lifeVars

\* the provider does not answer the call of line 125, which passes no timeout
EmbedStall(t) ==
    /\ pc[t] = "embed"
    /\ pc' = [pc EXCEPT ![t] = "stalled"]
    /\ UNCHANGED <<op, self>>
    /\ UNCHANGED searchVars
    /\ UNCHANGED lifeVars

\* the for loop goes on after the entry at i[t]: the next entry that is not Padding,
\* or line 190, return results
LoopOn(t, res) ==
    LET j == NextHit(hits[t], i[t] + 1)
    IN  /\ i' = [i EXCEPT ![t] = j]
        /\ IF j > Len(hits[t])
           THEN Return(t, "ok", res)
           ELSE /\ pc' = [pc EXCEPT ![t] = "loop"]
                /\ UNCHANGED <<how, ret>>

\* one pass of the loop body, lines 170-188, up to open(filename, 'w') in write:
\* the result is appended; get_logger() builds the CustomLogger when _logger is None
\* (which creates results.json as '[]' when it is missing, and raises when the
\* directory or the file cannot be made: search then returns from line 194);
\* log_search_result builds the entry and calls write, whose open truncates the
\* file. When open raises, write catches it and the loop goes on.
LogOpen(t) ==
    /\ pc[t] = "loop"
    /\ LET res == Append(results[t], HitResult(obj[self[t]], hits[t][i[t]]))
       IN  /\ results' = [results EXCEPT ![t] = res]
           /\ IF ~logger /\ ~sinkOk
              THEN /\ Return(t, "sink_error", ExceptResult)
                   /\ UNCHANGED <<i, nlog, logger, file>>
              ELSE /\ logger' = TRUE
                   /\ nlog' = [nlog EXCEPT ![t] = @ + 1]
                   /\ IF sinkOk
                      THEN /\ file' = [exists |-> TRUE, content |-> <<>>]
                           /\ pc' = [pc EXCEPT ![t] = "writing"]
                           /\ UNCHANGED <<i, how, ret>>
                      ELSE /\ UNCHANGED file
                           /\ LoopOn(t, res)
    /\ UNCHANGED <<op, self, query, array, k, hits, sinkOk, provFailed, answered>>
    /\ UNCHANGED lifeVars

\* write lines 156-157: json.dump into the open file and the close that flushes it,
\* at offset 0 of whatever the file holds by then; a failing flush is caught by
\* write
WriteClose(t) ==
    /\ pc[t] = "writing"
    /\ IF sinkOk
       THEN /\ file' = [exists |-> TRUE,
                        content |-> Overlay(file.content,
                                            JsonDump(LogEntry(QueryRepr(query[t]),
                                                              results[t])))]
       ELSE UNCHANGED file
    /\ LoopOn(t, results[t])
    /\ UNCHANGED <<op, self, query, array, k, hits, results, nlog, logger, sinkOk,
                   provFailed, answered>>
    /\ UNCHANGED lifeVars

\* the caller has taken the outcome of its search call
Finish(t) ==
    /\ pc[t] = "done"
    /\ pc' = [pc EXCEPT ![t] = "idle"]
    /\ op' = [op EXCEPT ![t] = None]
    /\ self' = [self EXCEPT ![t] = NoObject]
    /\ query' = [query EXCEPT ![t] = NoQuery]
    /\ array' = [array EXCEPT ![t] = <<>>]
    /\ k' = [k EXCEPT ![t] = 0]
    /\ hits' = [hits EXCEPT ![t] = <<>>]
    /\ i' = [i EXCEPT ![t] = 0]
    /\ results' = [results EXCEPT ![t] = <<>>]
    /\ nlog' = [nlog EXCEPT ![t] = 0]
    /\ how' = [how EXCEPT ![t] = None]
    /\ ret' = [ret EXCEPT ![t] = <<>>]
    /\ UNCHANGED <<logger, sinkOk, file, provFailed, answered>>
    /\ UNCHANGED lifeVars

\* the log directory or results.json stops being writable
BreakSink ==
    /\ sinkOk
    /\ sinkOk' = FALSE
    /\ UNCHANGED <<pc, op, self, query, array, k, hits, i, results, nlog, how, ret,
                   logger, file, provFailed, answered>>
    /\ UNCHANGED lifeVars

\* the engine __init__ builds from the csv file `path`
BuiltEngine(path) ==
    InitializeFaissIndex(
        LoadData([BlankObject("get") EXCEPT !.attrs = {"logger", "co", "embedding_model"}],
                 path).obj)

\* the searches start where initialization has ended: get_matcher(path) has built
\* and published object 1, every thread holds it, and a later FaissHSCodeMatcher(...)
\* has returned object 2 from line 55
SearchInit ==
    /\ \E path \in {"a", "b"} :
         obj = [o \in ObjIds |-> IF o = 1 THEN BuiltEngine(path)
                                 ELSE IF o = 2 THEN BlankObject("ctor")
                                 ELSE Unallocated]
    /\ instance = 1
    /\ nobj = 2
    /\ pc = [t \in Threads |-> "idle"]
    /\ op = [t \in Threads |-> None]
    /\ csv = [t \in Threads |-> None]
    /\ self = [t \in Threads |-> NoObject]
    /\ handle = [t \in Threads |-> 1]
    /\ via = [t \in Threads |-> "get"]
    /\ SearchVarsInit

SearchNext ==
    \/ \E t \in Threads, o \in ObjIds, inp \in SearchInputs : SearchStart(t, o, inp)
    \/ \E t \in Threads, v \in ProviderVectors : EmbedReturn(t, v)
    \/ \E t \in Threads : EmbedFail(t)
    \/ \E t \in Threads : EmbedStall(t)
    \/ \E t \in Threads : LogOpen(t)
    \/ \E t \in Threads : WriteClose(t)
    \/ \E t \in Threads : Finish(t)
    \/ BreakSink

SearchSpec == SearchInit /\ [][SearchNext]_vars

Next ==
    \/ \E t \in Threads, path \in CsvPaths : GetMatcher(t, path)
    \/ \E t \in Threads : GetInstanceCheck(t)
    \/ \E t \in Threads, path \in CsvPaths : Construct(t, path)
    \/ \E t \in Threads : InitCheck(t)
    \/ \E t \in Threads, clientOk \in BOOLEAN : InitBody(t, clientOk)
    \/ \E t \in Threads : InitPublish(t)
    \/ \E t \in Threads : GetInstanceAssign(t)
    \/ \E t \in Threads : GetInstanceReturn(t)

Spec == Init /\ [][Next]_vars

\* ================================================================ claims
\* the objects on which a get_matcher call ran _load_data and _initialize_faiss_index
\* to the end
BuiltByGetMatcher == {o \in 1..nobj : obj[o].maker = "get" /\ "index" \in obj[o].attrs}

\* C1: whatever the interleaving of the get_matcher calls, the corpus load and the
\* index build run at most once in total.
C1_OneBuild == Cardinality(BuiltByGetMatcher) <= 1

\* C2: no two callers of get_matcher receive different instances: the values the
\* threads' get_matcher calls returned are one and the same object.
C2_SameInstance ==
    \A t, u \in Threads :
        via[t] = "get" /\ via[u] = "get" => handle[t] = handle[u]

\* C3: a get_matcher call made after some get_matcher call has returned returns the
\* instance that earlier call returned, for any csv_path, and runs no load or build.
C3_LaterCallsReturnFirst ==
    [][\A t \in Threads :
          op[t] = "get_late" /\ pc[t] = "gi_return" /\ pc'[t] = "idle"
          => /\ \A u \in Threads : via[u] = "get" => handle'[t] = handle[u]
             /\ self[t] = NoObject
             /\ obj' = obj]_vars

\* ---------------------------------------------------------------- search claims
\* the engines initialization builds
BuiltEngines == {BuiltEngine(path) : path \in {"a", "b"}}

\* res is a ranking of the kk rows of e nearest to qn: one result per row, the row's
\* own record and inner product, largest first, no row left out that beats one in it
CorrectResults(e, qn, kk, res) ==
    LET n == Len(e.df)
        m == IF kk < n THEN kk ELSE n
        sim == [r \in 1..n |-> InnerProduct(e.vectors[r], qn)]
    IN  /\ Len(res) = m
        /\ \E rows \in [1..m -> 1..n] :
             /\ \A a, b \in 1..m : a < b => rows[a] # rows[b]
             /\ \A a \in 1..m :
                  res[a] = [id |-> e.df[rows[a]].id, code |-> e.df[rows[a]].code,
                            description |-> e.df[rows[a]].description,
                            similarity |-> sim[rows[a]]]
             /\ \A a, b \in 1..m : a < b => sim[rows[a]] >= sim[rows[b]]
             /\ \A r \in 1..n :
                  (\A a \in 1..m : rows[a] # r) => \A a \in 1..m : sim[r] <= sim[rows[a]]

\* C4: a text search whose embedding call fails returns an empty list; the engine it
\* ran on is still the engine initialization built; and every search on that engine
\* that later gets through embedding, index and sink returns the correct ranking.
C4_ProviderFailureIsolated ==
    /\ \A t \in Threads :
         pc[t] = "done" /\ how[t] = "provider_error" => ret[t] = <<>>
    /\ \A o \in provFailed : obj[o] \in BuiltEngines
    /\ \A t \in Threads :
         pc[t] = "done" /\ how[t] = "ok" /\ self[t] \in provFailed
         => CorrectResults(obj[self[t]], array[t], k[t], ret[t])

\* a text search has returned a full ranking on an engine that met a provider failure
C4_Witness ==
    \E t \in Threads :
        /\ pc[t] = "done" /\ how[t] = "ok" /\ self[t] \in provFailed
        /\ query[t].text /\ Len(ret[t]) >= 2

\* C5: every search call that returns has made exactly one log_search_result call.
C5_OneEventPerSearch ==
    \A t \in Threads : pc[t] = "done" /\ how[t] # "raised" => nlog[t] = 1

\* C6: when a search returns while no other search is running, results.json holds one
\* record, and the record describes that search: its query representation, its full
\* result list and the length of that list.
C6_SnapshotIsLastSearch ==
    [][\A t \in Threads :
          /\ pc[t] # "done" /\ pc'[t] = "done" /\ how'[t] # "raised"
          /\ \A u \in Threads \ {t} : pc[u] \in {"idle", "done"}
          => /\ file'.exists
             /\ WholeRecord(file'.content)
             /\ JsonLoad(file'.content) = LogEntry(QueryRepr(query'[t]), ret'[t])]_vars

\* C7: a failure of the logging sink does not change what search returns: a search
\* that got an answer from the index returns the results of all its entries.
C7_SinkFailureKeepsResult ==
    \A t \in Threads :
        pc[t] = "done" /\ how[t] # "raised" /\ hits[t] # <<>>
        => ret[t] = ResultsUpTo(obj[self[t]], hits[t], Len(hits[t]))

\* C8: with a working sink and no write under way, results.json, once written, holds
\* exactly one whole record.
C8_WholeRecord ==
    /\ \A t \in Threads : pc[t] # "writing"
    /\ sinkOk /\ file.exists /\ file.content # EmptyArray
    => WholeRecord(file.content)

\* the steps by which the code of a running search call goes on
SearchStep(t) == (\E v \in ProviderVectors : EmbedReturn(t, v)) \/ EmbedFail(t)
                 \/ LogOpen(t) \/ WriteClose(t)

\* C9: no search call blocks for ever: a call that has not returned can take a step,
\* also when the provider does not answer.
C9_SearchNeverBlocks ==
    \A t \in Threads :
        pc[t] \in {"embed", "stalled", "loop", "writing"} => ENABLED SearchStep(t)

\* the corpus row a result was made from
RowOf(e, r) == CHOOSE j \in 1..Len(e.df) : e.df[j].id = r.id

\* C10: the list search returns is ordered by similarity, largest first, and results
\* of equal similarity by ascending corpus row.
C10_TiesByRowIndex ==
    \A t \in Threads :
        pc[t] = "done" /\ how[t] = "ok"
        => \A a, b \in 1..Len(ret[t]) :
             a < b => \/ ret[t][a].similarity > ret[t][b].similarity
                      \/ /\ ret[t][a].similarity = ret[t][b].similarity
                         /\ RowOf(obj[self[t]], ret[t][a]) < RowOf(obj[self[t]], ret[t][b])

\* the record of corpus row r of e, as search returns it with similarity s
RecordOf(e, r, s) ==
    [id |-> e.df[r].id, code |-> e.df[r].code, description |-> e.df[r].description,
     similarity |-> s]

\* C11: on a non-empty corpus a search with a vector of the corpus dimension returns
\* exactly min(k, corpus size) results when k > 0, an empty list when k <= 0, and
\* every corpus record exactly once, and nothing else, when k exceeds the corpus size.
C11_KClamped ==
    \A t \in Threads :
        /\ pc[t] = "done" /\ ~query[t].text
        /\ FullyInitialized(obj[self[t]])
        /\ Len(obj[self[t]].df) > 0
        /\ Len(query[t].vec) = obj[self[t]].dimension
        => LET e == obj[self[t]]
               n == Len(e.df)
           IN  /\ k[t] <= 0 => how[t] # "raised" /\ ret[t] = <<>>
               /\ k[t] > 0 => /\ how[t] # "raised"
                              /\ Len(ret[t]) = IF k[t] < n THEN k[t] ELSE n
               /\ k[t] > n =>
                    /\ \A r \in 1..n :
                         Cardinality({a \in 1..Len(ret[t]) : ret[t][a].id = e.df[r].id}) = 1
                    /\ \A a \in 1..Len(ret[t]) :
                         \E r \in 1..n : ret[t][a] = RecordOf(e, r, ret[t][a].similarity)

\* ---------------------------------------------------------------- startup claims
\* the csv files whose data _load_data cannot take
BadCsvPaths == {"bad", "empty", "garbage"}

\* routes.py lines 12 and 23-25: health_check exists, and answers "healthy", in a
\* process whose import of the routes module got past its get_matcher call
HealthCheckServes(t) == via[t] = "get"

\* an object whose __init__ was left by an exception
FailedInit(e) == e.attrs # {} /\ "index" \notin e.attrs

\* C12: an __init__ that reads an empty corpus, an unparseable embedding or rows of
\* unequal dimension ends with an exception: the call returns no object to its
\* caller, FaissHSCodeMatcher._instance stays what it was (None stays None), the
\* object has no index, a health check not served before is not served after; and
\* no object left by a failed __init__ is ever the shared
\* instance or in a caller's hands, so no search runs on it.
C12_StartupDataErrorsFatal ==
    [][/\ \A t \in Threads :
            pc[t] = "init_body" /\ pc'[t] # "init_body" /\ csv[t] \in BadCsvPaths
            => /\ pc'[t] = "idle"
               /\ FailedInit(obj'[self[t]])
               /\ instance' = instance
               /\ instance' # self[t]
               /\ handle'[t] = handle[t]
               /\ HealthCheckServes(t)' = HealthCheckServes(t)
       /\ \A o \in 1..nobj' :
            FailedInit(obj'[o])
            => instance' # o /\ \A t \in Threads : handle'[t] # o]_vars

\* each kind of bad corpus has made an __init__ fail, and no instance is stored
C12_Witness ==
    /\ instance = NoObject
    /\ \A t \in Threads : pc[t] = "idle" /\ handle[t] = NoObject
    /\ \E o \in 1..nobj : obj[o].attrs = {"logger", "co", "embedding_model", "df", "vectors"}
    /\ \E o \in 1..nobj : \E r \in 1..Len(obj[o].df) : obj[o].df[r].id = "G"
    /\ \E o \in 1..nobj : \E r \in 1..Len(obj[o].df) : obj[o].df[r].id = "Q"

\* ---------------------------------------------------------------- query claims
\* C13: a search with a vector of norm zero ends in an error outcome and returns no
\* ranked list of similarities.
C13_ZeroQueryIsError ==
    \A t \in Threads :
        /\ pc[t] = "done" /\ ~query[t].text
        /\ FullyInitialized(obj[self[t]])
        /\ Len(query[t].vec) = obj[self[t]].dimension
        /\ SumSq(query[t].vec) = 0
        => how[t] # "ok" /\ ret[t] = <<>>

\* C14: on every object a caller can hold, a search call that meets an error (of the
\* provider, of the normalization, of the index, of the mapping to records) returns
\* to its caller, raising nothing, and returns the empty list.
C14_ErrorsNeverEscape ==
    \A t \in Threads :
        pc[t] = "done" => /\ how[t] # "raised"
                          /\ how[t] # "ok" => ret[t] = <<>>

\* ---------------------------------------------------------------- concurrency claims
\* what the search call of thread t on engine e returns when it runs alone: the
\* records of the answer index.search gives for its query and k
ReturnsAsAlone(t, e) ==
    \A h \in IndexAnswers(e.index, array[t], k[t]) : ret[t] = ResultsUpTo(e, h, Len(h))

\* the step by which a search call that waits for the provider or runs its result
\* loop goes on
CallStep(t) == (\E v \in ProviderVectors : EmbedReturn(t, v)) \/ EmbedFail(t)
               \/ LogOpen(t) \/ WriteClose(t)

\* C15: search calls that run in parallel on a fully initialized engine all complete
\* (a call that has not returned can take a step, whatever the other calls do); a
\* call that returns results returns those it returns alone, and every other call
\* returns the empty list; the calls write nothing shared but the logging sink: the
\* engine, the shared instance and the arrays the callers passed stay as they were.
C15_ParallelAsAlone ==
    \A t \in Threads :
        self[t] # NoObject /\ FullyInitialized(obj[self[t]])
        => /\ pc[t] \in {"embed", "stalled", "loop", "writing"} => ENABLED CallStep(t)
           /\ pc[t] = "done" /\ how[t] = "ok" => ReturnsAsAlone(t, obj[self[t]])
           /\ pc[t] = "done" /\ how[t] # "ok" => ret[t] = <<>>
           /\ obj[self[t]] \in BuiltEngines /\ instance = self[t]
           /\ pc[t] = "done" /\ ~query[t].text => array[t] = query[t].vec

\* two returned searches on the same initialized engine with the same vector and the
\* same k have returned the same list
SameInputSameOutput ==
    \A t, u \in Threads :
        /\ pc[t] = "done" /\ pc[u] = "done"
        /\ self[t] = self[u] /\ FullyInitialized(obj[self[t]])
        /\ ~query[t].text /\ query[u] = query[t] /\ k[u] = k[t]
        => ret[t] = ret[u]

C17_InstanceInitialized ==
    instance # NoObject => FullyInitialized(obj[instance])

\* C18: when search(v, k) on an initialized engine has returned, the array v its
\* caller passed holds the values it held at the call.
C18_CallerVectorUnchanged ==
    \A t \in Threads :
        /\ pc[t] = "done" /\ ~query[t].text
        /\ FullyInitialized(obj[self[t]])
        => array[t] = query[t].vec
====
